---- MODULE Spec2Model ----
(***************************************************************************)
(* A model of spectrum.py: ModelModifier scans the weight matrices of a    *)
(* model, scores each by a signal-to-noise ratio of its singular values,   *)
(* saves the report and writes the top/bottom-percent selection per type.  *)
(*                                                                         *)
(* Representation.                                                         *)
(*  - A Python str is a sequence of one-character strings, so that split,  *)
(*    join, isdigit and the substring test `in` are computed, not assumed. *)
(*  - A Python float is an exact non-negative rational <<num, den>> in     *)
(*    lowest terms; <<1, 0>> is +inf and <<0, 0>> is NaN.                  *)
(*  - An optional value (None or a value) is <<>> or <<value>>.            *)
(*  - A dict is a sequence of entries in insertion order.                  *)
(***************************************************************************)
EXTENDS Integers, Sequences, FiniteSets, TLC

VARIABLES
    pc,               \* position of main(): "main", "assess", "save", "done", "error"
    args_top_percent, \* args.top_percent: <<>> (not given) or <<p>>
    snr_file,         \* model_snr_results/snr_results_<slug>.json: <<>> or <<entries>>
    catalog,          \* self.model.named_modules(): sequence of [name, weight]
    batch_size,       \* self.batch_size
    top_percent,      \* self.top_percent: <<>> (None) or <<p>>
    weight_types,     \* the value get_weight_types returned
    layer_types,      \* self.layer_types, the selected weight types
    layer_snr,        \* self.layer_snr: sequence of [name, type, snr]
    type_idx,         \* index into layer_types of the type being scanned
    batch_start,      \* i of `for i in range(0, len(layers), self.batch_size)`
    sorted_file,      \* snr_results_<slug>_sorted.json: <<>> or <<groups>>
    yaml_files,       \* the *_unfrozenparameters_*.yaml files: filename -> lines
    error,            \* the exception that ended the run, "" when none
    calls,            \* number of generate_unfrozen_params_yaml calls made
    last_percent      \* the top_percent of the latest such call: <<>> or <<p>>

vars == <<pc, args_top_percent, snr_file, catalog, batch_size, top_percent,
          weight_types, layer_types, layer_snr, type_idx, batch_start,
          sorted_file, yaml_files, error, calls, last_percent>>

\* ---------------------------------------------------------------- bounds

MaxNameLen == 4
MaxModules == 3
MaxBatch == 2
MaxRecords == 2
MaxCalls == 2
MaxPercentSteps == 3

\* ------------------------------------------------------- Python built-ins

None == <<>>

Some(x) == <<x>>

Digits == {"0", "1", "2", "3", "4", "5", "6", "7", "8", "9"}

Min(a, b) == IF a < b THEN a ELSE b

Abs(x) == IF x < 0 THEN -x ELSE x

RECURSIVE Gcd(_, _)
Gcd(a, b) == IF b = 0 THEN a ELSE Gcd(b, a % b)

RECURSIVE Reverse(_)
Reverse(s) == IF s = <<>> THEN <<>> ELSE Append(Reverse(Tail(s)), Head(s))

\* s[:k] for k >= 0: the slice stops at the end of the sequence.
Take(s, k) == SubSeq(s, 1, Min(k, Len(s)))

\* str.isdigit(): at least one character and all of them digits.
IsDigit(part) == Len(part) > 0 /\ \A i \in 1..Len(part) : part[i] \in Digits

\* name.split('.'): the segments between the dots, empty ones included.
RECURSIVE SplitFrom(_, _, _)
SplitFrom(name, i, part) ==
    IF i > Len(name) THEN <<part>>
    ELSE IF name[i] = "." THEN <<part>> \o SplitFrom(name, i + 1, <<>>)
    ELSE SplitFrom(name, i + 1, Append(part, name[i]))

Split(name) == SplitFrom(name, 1, <<>>)

\* '.'.join(parts)
RECURSIVE Join(_)
Join(parts) ==
    IF parts = <<>> THEN <<>>
    ELSE IF Len(parts) = 1 THEN parts[1]
    ELSE parts[1] \o <<".">> \o Join(Tail(parts))

\* `layer_type in name` on strings: layer_type occurs as a substring of name.
IsSubstring(layer_type, name) ==
    \E k \in 0..(Len(name) - Len(layer_type)) :
        SubSeq(name, k + 1, k + Len(layer_type)) = layer_type

\* ------------------------------------------------------ get_weight_types

\* next((i for i, part in enumerate(parts) if part.isdigit()), -1), 0-based.
LayerIndex(parts) ==
    IF \E i \in 1..Len(parts) : IsDigit(parts[i])
    THEN (CHOOSE i \in 1..Len(parts) :
              IsDigit(parts[i]) /\ \A j \in 1..(i - 1) : ~IsDigit(parts[j])) - 1
    ELSE -1

\* A mutant of FoundLayerIndex: `if layer_index` instead of `!= -1`.
FoundLayerIndexTruthy(layer_index) == layer_index > 0

FoundLayerIndex(layer_index) == layer_index # -1

\* weight_type = '.'.join(parts[layer_index + 1:]) if layer_index != -1 else name
WeightType(name) ==
    LET parts == Split(name)
        layer_index == LayerIndex(parts)
    IN  IF FoundLayerIndex(layer_index)
        THEN Join(SubSeq(parts, layer_index + 2, Len(parts)))
        ELSE name

\* hasattr(module, 'weight'); a module without one has weight = <<>>.
HasWeight(module) == module.weight # None

\* any(hasattr(module, attr) for attr in ['weight', 'bias', 'inv_freq'])
HasAnyAttr(module) == HasWeight(module) \/ module.other

GetWeightTypes(modules) ==
    {WeightType(modules[i].name) : i \in {j \in 1..Len(modules) : HasAnyAttr(modules[j])}}

\* ------------------------------------------------ floats as exact rationals

Inf == <<1, 0>>

NaN == <<0, 0>>

\* The rational num/den in lowest terms (num, den >= 0, not both 0).
Rat(num, den) == LET g == Gcd(num, den) IN <<num \div g, den \div g>>

IsFinite(x) == x[2] # 0

\* x < y on floats; every comparison with NaN is false.
Less(x, y) == x # NaN /\ y # NaN /\ x[1] * y[2] < y[1] * x[2]

\* x / y for x >= 0 and a finite y >= 0, as IEEE 754 divides: a positive or
\* infinite x over zero is +inf, zero over zero is NaN.
FloatDiv(x, y) ==
    IF x = NaN THEN NaN
    ELSE IF x = Inf THEN Inf
    ELSE IF y[1] = 0 THEN (IF x[1] = 0 THEN NaN ELSE Inf)
    ELSE Rat(x[1] * y[2], x[2] * y[1])

\* ------------------------------------------------ calculate_snr_for_layer

\* weights.unsqueeze(0) when weights.ndim < 2; then n, m = weights.shape[-2:].
Shape2D(weights) ==
    IF Len(weights.shape) < 2 THEN <<1>> \o weights.shape ELSE weights.shape

\* torch.linalg.svdvals(weights): the singular values, descending.  The
\* decomposition is the library's; a weight carries the values it returns.
SvdVals(weights) == weights.S

\* 4 * torch.quantile(S, k / 4), by linear interpolation between the two
\* nearest order statistics of S (S is descending, so the j-th smallest,
\* 0-based, is S[Len(S) - j]).
Quantile4(S, k) ==
    LET pos4 == k * (Len(S) - 1)
        lo == pos4 \div 4
        frac4 == pos4 % 4
        vlo == S[Len(S) - lo]
        vhi == IF frac4 = 0 THEN vlo ELSE S[Len(S) - lo - 1]
    IN  4 * vlo + frac4 * (vhi - vlo)

\* estimate_sigma_with_full_iqr: (q75 - q25) / 1.349
EstimateSigmaWithFullIqr(S) ==
    Rat((Quantile4(S, 3) - Quantile4(S, 1)) * 1000, 4 * 1349)

\* np.sqrt(beta) for beta = a / b a square of a rational (the shapes of
\* WeightPool are chosen so): the r / t with (r / t)^2 = a / b.
SqrtRat(a, b) ==
    CHOOSE rt \in (0..a) \X (1..b) :
        /\ rt[1] * rt[1] * b = a * rt[2] * rt[2]
        /\ Gcd(rt[1], rt[2]) = 1

\* marchenko_pastur_threshold: beta = n / m if n < m else m / n;
\* sigma * sqrt((1 + sqrt(beta)) ** 2) = sigma * (1 + sqrt(beta)).
MarchenkoPasturThreshold(sigma, n, m) ==
    LET beta == IF n < m THEN <<n, m>> ELSE <<m, n>>
        root == SqrtRat(beta[1], beta[2])
    IN  Rat(sigma[1] * (root[2] + root[1]), sigma[2] * root[2])

RECURSIVE SumSeq(_)
SumSeq(s) == IF s = <<>> THEN 0 ELSE Head(s) + SumSeq(Tail(s))

\* One pass of the inner loop body for one module: the snr_ratio stored.
SnrRatio(weights) ==
    LET w == Shape2D(weights)
        S == SvdVals(weights)
        max_singular_value == S[1]
        sigma_estimated == EstimateSigmaWithFullIqr(S)
        mp_threshold == MarchenkoPasturThreshold(sigma_estimated, w[1], w[2])
        Above(s) == Less(mp_threshold, <<s, 1>>)
        signal == SumSeq(SelectSeq(S, Above))
        noise == SumSeq(SelectSeq(S, LAMBDA s : ~Above(s)))
        snr == IF noise # 0 THEN Rat(signal, noise) ELSE Inf
    IN  FloatDiv(snr, <<max_singular_value, 1>>)

\* layers = [(name, module) for name, module in self.model.named_modules()
\*           if layer_type in name and hasattr(module, 'weight')]
LayersOf(modules, layer_type) ==
    SelectSeq(modules, LAMBDA mod : IsSubstring(layer_type, mod.name) /\ HasWeight(mod))

\* A mutant of BatchLayers: the slice one element short.
BatchLayersShort(layers, i, size) == SubSeq(layers, i + 1, Min(i + size - 1, Len(layers)))

\* batch_layers = layers[i:i + self.batch_size], i 0-based.
BatchLayers(layers, i, size) == SubSeq(layers, i + 1, Min(i + size, Len(layers)))

\* self.layer_snr[name] = {...}: a new key is appended, an existing key keeps
\* its place and takes the new value.
DictSet(dict, rec) ==
    IF \E k \in 1..Len(dict) : dict[k].name = rec.name
    THEN [k \in 1..Len(dict) |-> IF dict[k].name = rec.name THEN rec ELSE dict[k]]
    ELSE Append(dict, rec)

\* The inner `for name, module in batch_layers` loop.
RECURSIVE ScoreBatch(_, _, _)
ScoreBatch(dict, batch_layers, layer_type) ==
    IF batch_layers = <<>> THEN dict
    ELSE ScoreBatch(
             DictSet(dict, [name |-> Head(batch_layers).name,
                            type |-> layer_type,
                            snr |-> SnrRatio(Head(batch_layers).weight[1])]),
             Tail(batch_layers), layer_type)

\* ------------------------------------------ generate_unfrozen_params_yaml

\* The two selector lines written before any scored selection.
LmHeadLine == <<"^", "l", "m", "_", "h", "e", "a", "d", ".",
                "w", "e", "i", "g", "h", "t", "$">>

EmbedTokensLine == <<"^", "m", "o", "d", "e", "l", ".",
                     "e", "m", "b", "e", "d", "_", "t", "o", "k", "e", "n", "s", ".",
                     "w", "e", "i", "g", "h", "t", "$">>

\* info['type'] or info['snr'] raises KeyError for some entry of the file.
HasKeyError(snr_data) ==
    \E k \in 1..Len(snr_data) : ~({"type", "snr"} \subseteq DOMAIN snr_data[k].info)

\* The keys of a grouping dict in insertion order: the types in the order
\* of their first entry in snr_data.
RECURSIVE TypesInOrder(_, _)
TypesInOrder(snr_data, seen) ==
    IF snr_data = <<>> THEN <<>>
    ELSE LET t == Head(snr_data).info.type
         IN  IF t \in seen THEN TypesInOrder(Tail(snr_data), seen)
             ELSE <<t>> \o TypesInOrder(Tail(snr_data), seen \cup {t})

\* unfrozen_parameters[layer_type]: the (layer_name, snr) pairs of one type,
\* in file order.
GroupOf(snr_data, layer_type) ==
    LET mine == SelectSeq(snr_data, LAMBDA e : e.info.type = layer_type)
    IN  [k \in 1..Len(mine) |-> <<mine[k].name, mine[k].info.snr>>]

\* Insert x into an ascending sequence after every element not greater than
\* it, so that equal keys keep their order of arrival.
RECURSIVE InsertByKey(_, _)
InsertByKey(sorted, x) ==
    IF sorted = <<>> THEN <<x>>
    ELSE IF Less(x[2], Head(sorted)[2]) THEN <<x>> \o sorted
    ELSE <<Head(sorted)>> \o InsertByKey(Tail(sorted), x)

\* list.sort(key=lambda x: x[1]): stable, ascending.
RECURSIVE SortAscending(_)
SortAscending(layers) ==
    IF layers = <<>> THEN <<>>
    ELSE InsertByKey(SortAscending(SubSeq(layers, 1, Len(layers) - 1)),
                     layers[Len(layers)])

\* A mutant of Sorted: the reverse flag is dropped.
SortedIgnoringReverse(layers, reverse) == SortAscending(layers)

\* A mutant of Sorted: descending obtained by reversing the ascending sort.
SortedReversedAfter(layers, reverse) ==
    IF reverse THEN Reverse(SortAscending(layers)) ELSE SortAscending(layers)

\* sorted(layers, key=lambda x: x[1], reverse=reverse).  With reverse=True
\* CPython reverses the list, sorts it stably and reverses the result, so
\* equal keys keep their original order in both directions.
Sorted(layers, reverse) ==
    IF reverse THEN Reverse(SortAscending(Reverse(layers))) ELSE SortAscending(layers)

\* should_reverse = top_percent >= 0
ShouldReverse(percent) == percent >= 0

\* A mutant of NumSelectedLayers: the division taken before the product.
NumSelectedLayersDivFirst(n, abs_percent) == (n \div 100) * abs_percent

\* num_selected_layers = int(len(layers) * abs_percent / 100)
NumSelectedLayers(n, abs_percent) == (n * abs_percent) \div 100

\* top_layers_by_type[layer_type]
TopLayers(layers, percent) ==
    LET layers_sorted == Sorted(layers, ShouldReverse(percent))
        selected == Take(layers_sorted, NumSelectedLayers(Len(layers), Abs(percent)))
    IN  [k \in 1..Len(selected) |-> selected[k][1]]

SelectionType(percent) == IF ShouldReverse(percent) THEN "top" ELSE "bottom"

\* The name of the selection file: it carries selection_type and abs_percent
\* (the base name of the report is the same for every file of a run).
YamlFilename(percent) == [selection |-> SelectionType(percent), percent |-> Abs(percent)]

\* The lines one type contributes: its comment line, then one line per name.
TypeBlock(snr_data, layer_type, percent) ==
    LET names == TopLayers(GroupOf(snr_data, layer_type), percent)
    IN  <<[kind |-> "comment", text |-> layer_type,
           selection |-> SelectionType(percent), percent |-> Abs(percent)]>>
        \o [k \in 1..Len(names) |-> [kind |-> "item", text |-> names[k]]]

RECURSIVE TypeBlocks(_, _, _)
TypeBlocks(snr_data, types, percent) ==
    IF types = <<>> THEN <<>>
    ELSE TypeBlock(snr_data, Head(types), percent)
         \o TypeBlocks(snr_data, Tail(types), percent)

\* A mutant of YamlLines: the fixed entries written once per type block.
YamlLinesFixedPerType(snr_data, percent) ==
    LET types == TypesInOrder(snr_data, {})
        fixed == <<[kind |-> "item", text |-> LmHeadLine],
                   [kind |-> "item", text |-> EmbedTokensLine]>>
        RECURSIVE Blocks(_)
        Blocks(ts) == IF ts = <<>> THEN <<>>
                      ELSE fixed \o TypeBlock(snr_data, Head(ts), percent) \o Blocks(Tail(ts))
    IN  <<[kind |-> "header", text |-> <<>>]>> \o Blocks(types)

\* The lines written to the selection file: the top-level key, the two fixed
\* entries, then the block of each type.
YamlLines(snr_data, percent) ==
    <<[kind |-> "header", text |-> <<>>],
      [kind |-> "item", text |-> LmHeadLine],
      [kind |-> "item", text |-> EmbedTokensLine]>>
    \o TypeBlocks(snr_data, TypesInOrder(snr_data, {}), percent)

\* open(yaml_filename, 'w') and the writes: files with one file replaced.
WriteFile(files, filename, lines) ==
    [f \in DOMAIN files \cup {filename} |-> IF f = filename THEN lines ELSE files[f]]

\* Lines 188-219 on a report every entry of which has both fields.
SelectAndWrite(snr_data, percent_opt, files) ==
    IF percent_opt = None
    THEN [error |-> "TypeError", files |-> files]
    ELSE LET percent == percent_opt[1]
         IN  [error |-> "",
              files |-> WriteFile(files, YamlFilename(percent), YamlLines(snr_data, percent))]

\* A mutant of GenerateUnfrozenParamsYaml: a missing field read with a
\* default (info.get) instead of raising.
GenerateWithDefaults(snr_data, arg_percent, self_percent, files) ==
    LET Fill(e) == [name |-> e.name,
                    info |-> [type |-> IF "type" \in DOMAIN e.info THEN e.info.type ELSE <<>>,
                              snr |-> IF "snr" \in DOMAIN e.info THEN e.info.snr ELSE <<0, 1>>]]
    IN  SelectAndWrite([k \in 1..Len(snr_data) |-> Fill(snr_data[k])],
                       IF arg_percent # None THEN arg_percent ELSE self_percent, files)

\* generate_unfrozen_params_yaml(json_filename, top_percent): the exception
\* raised ("" when none) and the selection files after the call.
GenerateUnfrozenParamsYaml(snr_data, arg_percent, self_percent, files) ==
    IF HasKeyError(snr_data)
    THEN [error |-> "KeyError", files |-> files]
    ELSE SelectAndWrite(snr_data,
                        IF arg_percent # None THEN arg_percent ELSE self_percent, files)

\* save_top_snr_ratios_to_json: per type, the names and scores by descending
\* score.
SortedGroups(snr_data) ==
    LET types == TypesInOrder(snr_data, {})
    IN  [k \in 1..Len(types) |->
            [type |-> types[k], layers |-> Sorted(GroupOf(snr_data, types[k]), TRUE)]]

\* serializable_data of save_snr_to_json and its json.dump / json.load.
Serialize(dict) ==
    [k \in 1..Len(dict) |->
        [name |-> dict[k].name, info |-> [snr |-> dict[k].snr, type |-> dict[k].type]]]

\* ------------------------------------------------------------ the inputs

\* def __init__(self, model_name=None, top_percent=50, batch_size=1)
DefaultTopPercent == 50

DefaultBatchSize == 1

\* Module names: two layers of a type "g", a type "gp" whose name contains
\* "g", and a module outside the numbered layers.
NamePool == << <<"m", ".", "0", ".", "g">>,
               <<"m", ".", "0", ".", "g", "p">>,
               <<"m", ".", "1", ".", "g">>,
               <<"h">> >>

\* Weights: an all-zero 2x2 matrix, a 2x2 matrix with singular values 5 and
\* 2, and a vector of 4 entries (one singular value).
WeightPool == {[shape |-> <<2, 2>>, S |-> <<0, 0>>],
               [shape |-> <<2, 2>>, S |-> <<5, 2>>],
               [shape |-> <<4>>, S |-> <<2>>]}

\* What a module exposes: a weight, or only a bias / inv_freq.
ModuleKinds == {[weight |-> Some(w), other |-> FALSE] : w \in WeightPool}
               \cup {[weight |-> None, other |-> TRUE]}

\* The increasing sequence of the elements of a set of numbers.
RECURSIVE SeqOfSet(_)
SeqOfSet(set) ==
    IF set = {} THEN <<>>
    ELSE LET least == CHOOSE x \in set : \A y \in set : x <= y
         IN  <<least>> \o SeqOfSet(set \ {least})

\* The models: up to MaxModules modules of NamePool, in the pool's order.
Catalogs ==
    UNION {LET idx == SeqOfSet(I)
           IN  {[k \in 1..Len(idx) |->
                    [name |-> NamePool[idx[k]],
                     weight |-> kinds[k].weight, other |-> kinds[k].other]]
                : kinds \in [1..Len(idx) -> ModuleKinds]}
           : I \in {J \in SUBSET (1..Len(NamePool)) : Cardinality(J) \in 1..MaxModules}}

\* What the checkbox dialog can return: the checked types in the order they
\* were checked (none when everything is unchecked or the dialog cancelled).
Selections(types) ==
    {sel \in UNION {[1..n -> types] : n \in 0..Cardinality(types)} :
        \A a, b \in 1..Len(sel) : a # b => sel[a] # sel[b]}

\* What the batch-size dialog can yield: int(text), or 1 for no text (the
\* non-negative sizes; 0 makes the batch count divide by zero).
BatchSizes == 0..MaxBatch

Percents == {50 * k : k \in (-MaxPercentSteps)..MaxPercentSteps}

\* --top-percent: absent (default=None) or an integer.
ArgPercents == {None, Some(-50), Some(0), Some(100)}

\* The entries a saved report may hold: scores 0, 1/2 and +inf under either
\* of two types, or an entry that lacks one of the fields.
SnrValues == {<<0, 1>>, <<1, 2>>, Inf}

TypeValues == {<<"g">>, <<"g", "p">>}

InfoValues == {[snr |-> x, type |-> t] : x \in SnrValues, t \in TypeValues}
              \cup {[snr |-> <<1, 2>>], [type |-> <<"g">>]}

Reports ==
    UNION {{[k \in 1..n |-> [name |-> NamePool[k], info |-> infos[k]]]
            : infos \in [1..n -> InfoValues]} : n \in 0..MaxRecords}

\* ------------------------------------------------------------------ main

Init ==
    /\ pc = "main"
    /\ args_top_percent \in ArgPercents
    /\ \/ snr_file = None /\ catalog \in Catalogs
       \/ snr_file \in {Some(r) : r \in Reports} /\ catalog = <<>>
    /\ batch_size = DefaultBatchSize
    /\ top_percent = Some(DefaultTopPercent)
    /\ weight_types = {}
    /\ layer_types = <<>>
    /\ layer_snr = <<>>
    /\ type_idx = 1
    /\ batch_start = 0
    /\ sorted_file = None
    /\ yaml_files = <<>>
    /\ error = ""
    /\ calls = 0
    /\ last_percent = None

\* main, lines 256-259: a saved report exists; only the selection is made.
MainExisting ==
    /\ pc = "main"
    /\ snr_file # None
    /\ LET res == GenerateUnfrozenParamsYaml(snr_file[1], args_top_percent,
                                             args_top_percent, yaml_files)
       IN  /\ yaml_files' = res.files
           /\ error' = res.error
           /\ pc' = IF res.error = "" THEN "done" ELSE "error"
    /\ top_percent' = args_top_percent
    /\ calls' = calls + 1
    /\ last_percent' = args_top_percent
    /\ UNCHANGED <<args_top_percent, snr_file, catalog, batch_size, weight_types,
                   layer_types, layer_snr, type_idx, batch_start, sorted_file>>

\* main, lines 261-266 and 270-271: no saved report; the batch size and the
\* weight types are asked for, and the constructor takes its default percent.
InteractiveSelectWeights ==
    /\ pc = "main"
    /\ snr_file = None
    /\ \E size \in BatchSizes, selected \in Selections(GetWeightTypes(catalog)) :
        /\ batch_size' = size
        /\ layer_types' = selected
        /\ pc' = IF selected # <<>> THEN "assess" ELSE "done"
    /\ weight_types' = GetWeightTypes(catalog)
    /\ top_percent' = Some(DefaultTopPercent)
    /\ type_idx' = 1
    /\ batch_start' = 0
    /\ UNCHANGED <<args_top_percent, snr_file, catalog, layer_snr, sorted_file,
                   yaml_files, error, calls, last_percent>>

\* calculate_snr_for_layer, line 93: the batch count divides by batch_size.
CalculateSnrZeroBatch ==
    /\ pc = "assess"
    /\ batch_size = 0
    /\ pc' = "error"
    /\ error' = "ZeroDivisionError"
    /\ UNCHANGED <<args_top_percent, snr_file, catalog, batch_size, top_percent,
                   weight_types, layer_types, layer_snr, type_idx, batch_start,
                   sorted_file, yaml_files, calls, last_percent>>

\* calculate_snr_for_layer, lines 96-112: one batch of the current type.
CalculateSnrBatch ==
    /\ pc = "assess"
    /\ batch_size >= 1
    /\ LET layer_type == layer_types[type_idx]
           layers == LayersOf(catalog, layer_type)
       IN  /\ batch_start < Len(layers)
           /\ layer_snr' = ScoreBatch(layer_snr,
                                      BatchLayers(layers, batch_start, batch_size),
                                      layer_type)
    /\ batch_start' = batch_start + batch_size
    /\ UNCHANGED <<pc, args_top_percent, snr_file, catalog, batch_size, top_percent,
                   weight_types, layer_types, type_idx, sorted_file, yaml_files,
                   error, calls, last_percent>>

\* assess_layers_snr, lines 138-140: the batches of a type are done; the
\* next selected type follows, or the scan ends.
NextLayerType ==
    /\ pc = "assess"
    /\ batch_size >= 1
    /\ batch_start >= Len(LayersOf(catalog, layer_types[type_idx]))
    /\ batch_start' = 0
    /\ IF type_idx < Len(layer_types)
       THEN type_idx' = type_idx + 1 /\ pc' = pc
       ELSE type_idx' = type_idx /\ pc' = "save"
    /\ UNCHANGED <<args_top_percent, snr_file, catalog, batch_size, top_percent,
                   weight_types, layer_types, layer_snr, sorted_file, yaml_files,
                   error, calls, last_percent>>

\* save_snr_to_json: the report, then the sorted report, then the selection
\* with the percent of the object (no top_percent is passed).
SaveSnrToJson ==
    /\ pc = "save"
    /\ LET data == Serialize(layer_snr)
           res == GenerateUnfrozenParamsYaml(data, None, top_percent, yaml_files)
       IN  /\ snr_file' = Some(data)
           /\ sorted_file' = Some(SortedGroups(data))
           /\ yaml_files' = res.files
           /\ error' = res.error
           /\ pc' = IF res.error = "" THEN "done" ELSE "error"
    /\ calls' = calls + 1
    /\ last_percent' = top_percent
    /\ UNCHANGED <<args_top_percent, catalog, batch_size, top_percent, weight_types,
                   layer_types, layer_snr, type_idx, batch_start>>

Next ==
    \/ MainExisting
    \/ InteractiveSelectWeights
    \/ CalculateSnrZeroBatch
    \/ CalculateSnrBatch
    \/ NextLayerType
    \/ SaveSnrToJson

Spec == Init /\ [][Next]_vars

\* ------------------------------------------- the selection on its own

\* generate_unfrozen_params_yaml called on one saved report, with one
\* percent after another (each call names its file after its percent).
InitSelect ==
    /\ pc = "select"
    /\ args_top_percent = None
    /\ snr_file \in {Some(r) : r \in Reports}
    /\ catalog = <<>>
    /\ batch_size = DefaultBatchSize
    /\ top_percent = Some(DefaultTopPercent)
    /\ weight_types = {}
    /\ layer_types = <<>>
    /\ layer_snr = <<>>
    /\ type_idx = 1
    /\ batch_start = 0
    /\ sorted_file = None
    /\ yaml_files = <<>>
    /\ error = ""
    /\ calls = 0
    /\ last_percent = None

GenerateCall ==
    /\ pc = "select"
    /\ calls < MaxCalls
    /\ \E percent \in Percents :
        LET res == GenerateUnfrozenParamsYaml(snr_file[1], Some(percent),
                                              top_percent, yaml_files)
        IN  /\ yaml_files' = res.files
            /\ error' = res.error
            /\ last_percent' = Some(percent)
    /\ calls' = calls + 1
    /\ UNCHANGED <<pc, args_top_percent, snr_file, catalog, batch_size, top_percent,
                   weight_types, layer_types, layer_snr, type_idx, batch_start,
                   sorted_file>>

NextSelect == GenerateCall

SpecSelect == InitSelect /\ [][NextSelect]_vars

\* ------------------------------------------ get_weight_types on its own

NameAlphabet == {"a", "b", "0", "."}

\* Every name of at most MaxNameLen characters (the root module's is empty).
Names == UNION {[1..n -> NameAlphabet] : n \in 0..MaxNameLen}

InitTypes ==
    /\ pc = "types"
    /\ args_top_percent = None
    /\ snr_file = None
    /\ catalog \in {<<[name |-> n, weight |-> k.weight, other |-> k.other]>> :
                        n \in Names,
                        k \in {[weight |-> Some([shape |-> <<4>>, S |-> <<2>>]), other |-> FALSE],
                               [weight |-> None, other |-> TRUE],
                               [weight |-> None, other |-> FALSE]}}
    /\ batch_size = DefaultBatchSize
    /\ top_percent = Some(DefaultTopPercent)
    /\ weight_types = {}
    /\ layer_types = <<>>
    /\ layer_snr = <<>>
    /\ type_idx = 1
    /\ batch_start = 0
    /\ sorted_file = None
    /\ yaml_files = <<>>
    /\ error = ""
    /\ calls = 0
    /\ last_percent = None

GetWeightTypesCall ==
    /\ pc = "types"
    /\ weight_types' = GetWeightTypes(catalog)
    /\ pc' = "typed"
    /\ UNCHANGED <<args_top_percent, snr_file, catalog, batch_size, top_percent,
                   layer_types, layer_snr, type_idx, batch_start, sorted_file,
                   yaml_files, error, calls, last_percent>>

NextTypes == GetWeightTypesCall

SpecTypes == InitTypes /\ [][NextTypes]_vars

\* =============================================================== claims

\* ---- reading a report and a selection file

Malformed(report) ==
    \E k \in 1..Len(report) :
        "type" \notin DOMAIN report[k].info \/ "snr" \notin DOMAIN report[k].info

ReportTypes(report) == {report[k].info.type : k \in 1..Len(report)}

\* The positions in the report of the entries of one type.
GroupPositions(report, t) == {k \in 1..Len(report) : report[k].info.type = t}

PositionOf(report, name) == CHOOSE k \in 1..Len(report) : report[k].name = name

ScoreOf(report, name) == report[PositionOf(report, name)].info.snr

\* The names a selection file lists under the comment line of type t.
BlockNames(lines, t) ==
    LET start == CHOOSE i \in 1..Len(lines) :
                     lines[i].kind = "comment" /\ lines[i].text = t
        stop == IF \E j \in (start + 1)..Len(lines) : lines[j].kind = "comment"
                THEN CHOOSE j \in (start + 1)..Len(lines) :
                         /\ lines[j].kind = "comment"
                         /\ \A i \in (start + 1)..(j - 1) : lines[i].kind # "comment"
                ELSE Len(lines) + 1
    IN  [k \in 1..(stop - start - 1) |-> lines[start + k].text]

HasBlock(lines, t) ==
    \E i \in 1..Len(lines) : lines[i].kind = "comment" /\ lines[i].text = t

Range(seq) == {seq[k] : k \in 1..Len(seq)}

\* a ranks strictly before b in the direction of percent.
Better(a, b, percent) == IF percent >= 0 THEN Less(b, a) ELSE Less(a, b)

\* The file a call with this percent writes.
FileOf(percent) ==
    [selection |-> IF percent >= 0 THEN "top" ELSE "bottom",
     percent |-> IF percent >= 0 THEN percent ELSE -percent]

\* ---- C1

\* C1: for every report, type and signed percent, the selection of a type is
\* the first min(len, floor(len * |percent| / 100)) names of its group sorted
\* by snr, descending for percent >= 0 and ascending for percent < 0: the
\* block has that many distinct names of the group, it is ordered by score,
\* and no name left out ranks strictly before a name taken.  Hence percent 0
\* takes nothing, a magnitude of 100 or more takes the whole group, and no
\* percent fails.
C1_SelectionIsSortedPrefix ==
    (pc = "select" /\ calls > 0 /\ ~Malformed(snr_file[1])) =>
        LET report == snr_file[1]
            percent == last_percent[1]
            magnitude == IF percent >= 0 THEN percent ELSE -percent
        IN  /\ error = ""
            /\ FileOf(percent) \in DOMAIN yaml_files
            /\ \A t \in ReportTypes(report) :
                LET lines == yaml_files[FileOf(percent)]
                    group == {report[k].name : k \in GroupPositions(report, t)}
                    n == Cardinality(group)
                    floor == (n * magnitude) \div 100
                    count == IF floor < n THEN floor ELSE n
                IN  /\ HasBlock(lines, t)
                    /\ \A names \in {BlockNames(lines, t)} :
                           /\ Len(names) = count
                           /\ Range(names) \subseteq group
                           /\ Cardinality(Range(names)) = count
                           /\ \A i, j \in 1..Len(names) :
                                i < j => ~Better(ScoreOf(report, names[j]),
                                                 ScoreOf(report, names[i]), percent)
                           /\ \A u \in group \ Range(names), x \in Range(names) :
                                ~Better(ScoreOf(report, u), ScoreOf(report, x), percent)
                           /\ (percent = 0 => names = <<>>)
                           /\ (magnitude >= 100 => Range(names) = group)

\* A type of two entries with scores 1/2 and 0 and percent -50: the one name
\* taken is the lower one; the only entry of the other type is not taken
\* (floor of 0.5).
C1_Witness ==
    /\ pc = "select"
    /\ calls > 0
    /\ error = ""
    /\ last_percent = Some(-50)
    /\ Len(snr_file[1]) = 2
    /\ ~Malformed(snr_file[1])
    /\ \A k \in 1..2 : snr_file[1][k].info.type = <<"g">>
    /\ snr_file[1][1].info.snr = <<1, 2>>
    /\ snr_file[1][2].info.snr = <<0, 1>>
    /\ BlockNames(yaml_files[FileOf(-50)], <<"g">>) = <<NamePool[2]>>

\* ---- C3

DistinctScores(report, t) ==
    \A a, b \in GroupPositions(report, t) :
        a # b => report[a].info.snr # report[b].info.snr

TopAndBottomWritten(magnitude) ==
    /\ FileOf(magnitude) \in DOMAIN yaml_files
    /\ FileOf(-magnitude) \in DOMAIN yaml_files

TopNames(magnitude, t) == Range(BlockNames(yaml_files[FileOf(magnitude)], t))

BottomNames(magnitude, t) == Range(BlockNames(yaml_files[FileOf(-magnitude)], t))

\* C3 as stated: for every magnitude p the selections of p and -p of a type
\* with pairwise distinct scores are disjoint, and for p = 50 they cover the
\* type.
C3_SymmetricPartitionAnyMagnitude ==
    pc = "select" =>
        \A magnitude \in {m \in Percents : m >= 0} :
            TopAndBottomWritten(magnitude) =>
                \A t \in ReportTypes(snr_file[1]) :
                    DistinctScores(snr_file[1], t) =>
                        /\ TopNames(magnitude, t) \cap BottomNames(magnitude, t) = {}
                        /\ (magnitude = 50 =>
                               TopNames(magnitude, t) \cup BottomNames(magnitude, t)
                               = {snr_file[1][k].name : k \in GroupPositions(snr_file[1], t)})

\* C3 amended: for every magnitude p of at most 50 the selections of p and -p
\* of a type with pairwise distinct scores are disjoint, and for p = 50 they
\* cover the type when the type has an even number of entries.
C3_SymmetricPartitionUpToHalf ==
    pc = "select" =>
        \A magnitude \in {m \in Percents : m >= 0 /\ m <= 50} :
            TopAndBottomWritten(magnitude) =>
                \A t \in ReportTypes(snr_file[1]) :
                    DistinctScores(snr_file[1], t) =>
                        /\ TopNames(magnitude, t) \cap BottomNames(magnitude, t) = {}
                        /\ (magnitude = 50
                            /\ Cardinality(GroupPositions(snr_file[1], t)) % 2 = 0 =>
                               TopNames(magnitude, t) \cup BottomNames(magnitude, t)
                               = {snr_file[1][k].name : k \in GroupPositions(snr_file[1], t)})

\* A type of two entries with distinct scores, selected with 50 and with -50:
\* one name each, together the whole type.
C3_Witness ==
    /\ pc = "select"
    /\ TopAndBottomWritten(50)
    /\ \E t \in ReportTypes(snr_file[1]) :
        /\ DistinctScores(snr_file[1], t)
        /\ Cardinality(GroupPositions(snr_file[1], t)) = 2
        /\ Cardinality(TopNames(50, t)) = 1
        /\ Cardinality(BottomNames(50, t)) = 1
        /\ TopNames(50, t) # BottomNames(50, t)

\* ---- C6

\* In the selection file of the latest call, names of one type with equal
\* scores stand in the order of the report, and a name left out that ties
\* with a name taken comes after it in the report.
TiesKeepReportOrder ==
    (error = "" /\ last_percent # None) =>
        /\ FileOf(last_percent[1]) \in DOMAIN yaml_files
        /\ \A t \in ReportTypes(snr_file[1]) :
            \A names \in {BlockNames(yaml_files[FileOf(last_percent[1])], t)} :
                LET report == snr_file[1]
                    group == {report[k].name : k \in GroupPositions(report, t)}
                IN  /\ \A i, j \in 1..Len(names) :
                         (i < j /\ ScoreOf(report, names[i]) = ScoreOf(report, names[j]))
                         => PositionOf(report, names[i]) < PositionOf(report, names[j])
                    /\ \A u \in group \ Range(names), x \in Range(names) :
                         ScoreOf(report, u) = ScoreOf(report, x)
                         => PositionOf(report, x) < PositionOf(report, u)

\* C6: within a type, equal scores keep the report's order after the sort in
\* both directions (in the file each call writes), and a call that repeats a
\* percent on the same report leaves the file of that percent as it was.
C6_StableTiesAndIdempotence ==
    [][(pc = "select") =>
          /\ TiesKeepReportOrder'
          /\ \A f \in DOMAIN yaml_files : yaml_files'[f] = yaml_files[f]]_vars

\* Two entries of one type with equal scores, all taken in the top direction
\* and, by a second call, in the bottom direction.
C6_Witness ==
    /\ pc = "select"
    /\ Len(snr_file[1]) = 2
    /\ ~Malformed(snr_file[1])
    /\ snr_file[1][1].info = snr_file[1][2].info
    /\ FileOf(100) \in DOMAIN yaml_files
    /\ FileOf(-100) \in DOMAIN yaml_files
    /\ BlockNames(yaml_files[FileOf(100)], snr_file[1][1].info.type)
           = <<NamePool[1], NamePool[2]>>
    /\ BlockNames(yaml_files[FileOf(-100)], snr_file[1][1].info.type)
           = <<NamePool[1], NamePool[2]>>

\* ---- C9

Items(lines) == SelectSeq(lines, LAMBDA line : line.kind = "item")

\* C9: every selection file, also of an empty report, lists the output head
\* weight and the input embedding weight first, before any type block, each
\* exactly once, and every other name listed is a key of the report.
C9_FixedEntriesFirstOnce ==
    pc = "select" =>
        \A f \in DOMAIN yaml_files :
            LET lines == yaml_files[f]
                items == Items(lines)
            IN  /\ Len(lines) >= 3
                /\ lines[2] = [kind |-> "item", text |-> LmHeadLine]
                /\ lines[3] = [kind |-> "item", text |-> EmbedTokensLine]
                /\ Cardinality({k \in 1..Len(items) : items[k].text = LmHeadLine}) = 1
                /\ Cardinality({k \in 1..Len(items) : items[k].text = EmbedTokensLine}) = 1
                /\ \A k \in 3..Len(items) :
                     items[k].text \in {snr_file[1][i].name : i \in 1..Len(snr_file[1])}

\* A file with two type blocks, each with a name selected.
C9_Witness ==
    /\ pc = "select"
    /\ \E f \in DOMAIN yaml_files :
        /\ Len(Items(yaml_files[f])) >= 4
        /\ Cardinality({k \in 1..Len(yaml_files[f]) : yaml_files[f][k].kind = "comment"}) = 2

\* ---- C7

\* main took the branch of an existing report: one call, no sorted report.
SelectionOnlyRun == pc \in {"done", "error"} /\ calls = 1 /\ sorted_file = None

\* C7: a selection-only run on a report with an entry that lacks the type or
\* the snr field ends with the KeyError and writes no selection file.
C7_MalformedReportIsFatal ==
    (SelectionOnlyRun /\ Malformed(snr_file[1])) =>
        /\ pc = "error"
        /\ error = "KeyError"
        /\ DOMAIN yaml_files = {}

\* A report whose first entry is complete and whose second lacks its snr.
C7_Witness ==
    /\ SelectionOnlyRun
    /\ args_top_percent = Some(100)
    /\ Len(snr_file[1]) = 2
    /\ DOMAIN snr_file[1][1].info = {"snr", "type"}
    /\ DOMAIN snr_file[1][2].info = {"type"}
    /\ error = "KeyError"

\* ---- C10

\* C10 as stated: whenever main has made a selection, the percent it used is
\* the --top-percent given, on both branches; and without --top-percent the
\* run does not fail for the lack of a percent.
C10_OperatorPercentIsUsed ==
    /\ (calls > 0 /\ args_top_percent # None) => last_percent = args_top_percent
    /\ (args_top_percent = None) => error # "TypeError"

\* ---- C2

\* The structural type of a name, read off its characters: what follows the
\* dot after the first dot-delimited run of digits, or the name itself.
IsNumericSegment(name, a, b) ==
    /\ 1 <= a /\ a <= b /\ b <= Len(name)
    /\ \A i \in a..b : name[i] \in Digits
    /\ (a = 1 \/ name[a - 1] = ".")
    /\ (b = Len(name) \/ name[b + 1] = ".")

IsStructuralType(t, name) ==
    IF \E a, b \in 1..Len(name) : IsNumericSegment(name, a, b)
    THEN \E a, b \in 1..Len(name) :
            /\ IsNumericSegment(name, a, b)
            /\ \A c, d \in 1..Len(name) : IsNumericSegment(name, c, d) => a <= c
            /\ t = SubSeq(name, b + 2, Len(name))
    ELSE t = name

\* C2 as stated: every record of the report carries the structural type of
\* its own name.
C2_RecordTypeIsOwnType ==
    \A k \in 1..Len(layer_snr) : IsStructuralType(layer_snr[k].type, layer_snr[k].name)

\* ---- C4

ZeroSpectrum(name) ==
    \E k \in 1..Len(catalog) :
        /\ catalog[k].name = name
        /\ catalog[k].weight # None
        /\ \A i \in 1..Len(catalog[k].weight[1].S) : catalog[k].weight[1].S[i] = 0

\* C4 as stated: the saved report of a scan holds no NaN or infinite snr for
\* a matrix whose singular values are all zero.
C4_ZeroMatrixNotPersisted ==
    (pc = "done" /\ sorted_file # None) =>
        \A k \in 1..Len(snr_file[1]) :
            ZeroSpectrum(snr_file[1][k].name) => IsFinite(snr_file[1][k].info.snr)

\* ---- C5

\* The report of a scan that takes the matrices one at a time: for each
\* selected type in turn, each matching module with a weight in catalog
\* order sets its record.
RECURSIVE OneAtATime(_, _, _)
OneAtATime(report, modules, t) ==
    IF modules = <<>> THEN report
    ELSE LET mod == Head(modules)
             rec == [name |-> mod.name, type |-> t, snr |-> SnrRatio(mod.weight[1])]
             next == IF mod.weight # None /\ IsSubstring(t, mod.name)
                     THEN (IF \E k \in 1..Len(report) : report[k].name = mod.name
                           THEN [k \in 1..Len(report) |->
                                    IF report[k].name = mod.name THEN rec ELSE report[k]]
                           ELSE report \o <<rec>>)
                     ELSE report
         IN  OneAtATime(next, Tail(modules), t)

RECURSIVE SequentialReport(_, _)
SequentialReport(report, types) ==
    IF types = <<>> THEN report
    ELSE SequentialReport(OneAtATime(report, catalog, Head(types)), Tail(types))

\* C5: for every batch size >= 1 the report after the scan is the report of
\* the scan that takes the matrices one at a time: same names, types, scores
\* and order.
C5_BatchSizeDoesNotMatter ==
    (pc \in {"save", "done"} /\ layer_types # <<>> /\ batch_size >= 1) =>
        layer_snr = SequentialReport(<<>>, layer_types)

\* Three matrices match the one selected type and the batch size is 2, so
\* the scan took a full batch and a partial one.
C5_Witness ==
    /\ pc = "save"
    /\ batch_size = 2
    /\ Len(layer_types) = 1
    /\ Len(layer_snr) = 3

\* ---- C8

\* C8: the type derived for a name is what follows the first segment made
\* only of digits, and the whole name when no segment is; also when that
\* segment is the first or the last of the name.
C8_StructuralTypeOfName ==
    (pc = "typed" /\ (catalog[1].weight # None \/ catalog[1].other)) =>
        \E t \in weight_types :
            /\ weight_types = {t}
            /\ IsStructuralType(t, catalog[1].name)

\* The numeric segment is the first one: "0.a" has type "a".
C8_Witness ==
    /\ pc = "typed"
    /\ catalog[1].name = <<"0", ".", "a">>
    /\ weight_types = {<<"a">>}

====
